---- MODULE Spec2Model ----
(***************************************************************************)
(* Model of the command executor of mcp-custom-command-line                *)
(* (src/src/executor.ts): parameter validation, argument-vector            *)
(* construction and synchronous execution of a configured command.         *)
(*                                                                         *)
(* JavaScript strings on which the code works character by character       *)
(* (Number(value), command.split(' ')) are sequences of one-character      *)
(* strings; Join renders them.  Argument names, messages and tokens are    *)
(* TLA+ strings.                                                           *)
(***************************************************************************)
EXTENDS Integers, Sequences, FiniteSets, TLC

VARIABLES
    command,    \* ICommandLineEntry of the call: [command, arguments]
    params,     \* ICommandExecutionParams: own entries in Object.entries order
    errors,     \* the list validateParameters returned
    args,       \* the vector _buildCommandArguments returned
    spawned,    \* what was handed to Executable.spawnSync: <<>> or <<[executable, allArgs]>>
    outcome,    \* what Executable.spawnSync did
    result,     \* the ICommandExecutionResult executeCommand returned
    pc,         \* position of the caller
    reply,      \* the reply of the tool handler: <<>> or <<[text, isError]>>
    prev,       \* the preceding tool call: <<>> or <<[command, params, errors, args]>>
    phase,      \* position of main()
    env,        \* the configuration sources the process was started with
    config,     \* the IConfig main() holds: <<>> or <<config>>
    tools,      \* the tools registered with the McpServer, in registration order
    connected,  \* the transport is connected
    exitCode,   \* the code process.exit was called with: <<>> or <<code>>
    consulted,  \* the configuration sources resolveConfiguration has read
    held,       \* ConfigurationManager._config: <<>> or <<config>>
    file,       \* what is at ConfigurationManager._configFilePath
    ret,        \* what the last call of a ConfigurationManager method did
    lastGood,   \* the configuration of the last loadConfig that succeeded
    calls,      \* the tool calls of a server process, by request
    turn        \* the request whose handler occupies the JavaScript thread, or 0

execVars == <<command, params, errors, args, spawned, outcome, result, pc>>

handlerVars == <<reply, prev>>

startupVars == <<phase, env, config, tools, connected, exitCode, consulted>>

managerVars == <<held, file, ret, lastGood>>

serverVars == <<calls, turn>>

vars == <<execVars, handlerVars, startupVars, managerVars, serverVars>>

-----------------------------------------------------------------------------
(* Bounds of the model *)

MaxArgs == 2        \* declared arguments per command
MaxParams == 2      \* own entries per parameter map
MaxStatus == 2      \* exit statuses 0..MaxStatus
MaxCalls == 3       \* tool calls received by one server process

-----------------------------------------------------------------------------
(* Strings *)

RECURSIVE Join(_)
Join(cs) == IF cs = <<>> THEN "" ELSE Head(cs) \o Join(Tail(cs))

Chars(s) ==
    CASE s = "" -> <<>>
      [] s = "hello" -> <<"h", "e", "l", "l", "o">>
      [] s = "42" -> <<"4", "2">>
      [] s = "true" -> <<"t", "r", "u", "e">>
      [] s = "false" -> <<"f", "a", "l", "s", "e">>
      [] s = " 7 " -> <<" ", "7", " ">>
      [] s = "1e3" -> <<"1", "e", "3">>
      [] s = "-4.5" -> <<"-", "4", ".", "5">>
      [] s = "0x1F" -> <<"0", "x", "1", "F">>
      [] s = "4 2" -> <<"4", " ", "2">>
      [] s = "12px" -> <<"1", "2", "p", "x">>
      [] s = "." -> <<".">>
      [] s = "Infinity" -> <<"I", "n", "f", "i", "n", "i", "t", "y">>
      [] s = "TRUE" -> <<"T", "R", "U", "E">>
      [] s = "echo" -> <<"e", "c", "h", "o">>
      [] s = "git status" -> <<"g", "i", "t", " ", "s", "t", "a", "t", "u", "s">>
      [] s = "git  status" -> <<"g", "i", "t", " ", " ", "s", "t", "a", "t", "u", "s">>
      [] s = " echo" -> <<" ", "e", "c", "h", "o">>
      [] s = "echo " -> <<"e", "c", "h", "o", " ">>
      [] s = "git\tstatus" -> <<"g", "i", "t", "\t", "s", "t", "a", "t", "u", "s">>
      [] s = "nosuch" -> <<"n", "o", "s", "u", "c", "h">>

Digits == <<"0", "1", "2", "3", "4", "5", "6", "7", "8", "9">>

IsDigit(c) == \E i \in 1..10 : Digits[i] = c

IsHexDigit(c) == IsDigit(c) \/ c \in {"a", "b", "c", "d", "e", "f", "A", "B", "C", "D", "E", "F"}

\* StrWhiteSpaceChar of ECMAScript's StringToNumber
IsWhiteSpace(c) == c \in {" ", "\t", "\n", "\r"}

RECURSIVE TrimStart(_)
TrimStart(cs) ==
    IF cs # <<>> /\ IsWhiteSpace(Head(cs)) THEN TrimStart(Tail(cs)) ELSE cs

RECURSIVE TrimEnd(_)
TrimEnd(cs) ==
    IF cs # <<>> /\ IsWhiteSpace(cs[Len(cs)]) THEN TrimEnd(SubSeq(cs, 1, Len(cs) - 1)) ELSE cs

Trim(cs) == TrimEnd(TrimStart(cs))

\* the index after the longest run of digits of cs that starts at i
RECURSIVE SkipDigits(_, _)
SkipDigits(cs, i) ==
    IF i <= Len(cs) /\ IsDigit(cs[i]) THEN SkipDigits(cs, i + 1) ELSE i

SkipSign(cs, i) == IF i <= Len(cs) /\ cs[i] \in {"+", "-"} THEN i + 1 ELSE i

\* StrDecimalLiteral: [+-] (Infinity | digits [. [digits]] [exp] | . digits [exp])
IsStrDecimalLiteral(cs) ==
    LET i0 == SkipSign(cs, 1)
        i1 == SkipDigits(cs, i0)
        dot == i1 <= Len(cs) /\ cs[i1] = "."
        i2 == IF dot THEN SkipDigits(cs, i1 + 1) ELSE i1
        mantissa == (i1 > i0) \/ (dot /\ i2 > i1 + 1)
        exp == i2 <= Len(cs) /\ cs[i2] \in {"e", "E"}
        i3 == IF exp THEN SkipSign(cs, i2 + 1) ELSE i2
        i4 == IF exp THEN SkipDigits(cs, i3) ELSE i2
    IN  \/ SubSeq(cs, i0, Len(cs)) = <<"I", "n", "f", "i", "n", "i", "t", "y">>
        \/ /\ mantissa
           /\ exp => i4 > i3
           /\ i4 = Len(cs) + 1

\* NonDecimalIntegerLiteral: 0x / 0o / 0b followed by digits of the base
IsNonDecimalIntegerLiteral(cs) ==
    /\ Len(cs) >= 3
    /\ cs[1] = "0"
    /\ \/ cs[2] \in {"x", "X"} /\ \A i \in 3..Len(cs) : IsHexDigit(cs[i])
       \/ cs[2] \in {"o", "O"} /\ \A i \in 3..Len(cs) : cs[i] \in {"0", "1", "2", "3", "4", "5", "6", "7"}
       \/ cs[2] \in {"b", "B"} /\ \A i \in 3..Len(cs) : cs[i] \in {"0", "1"}

\* Number(<string>) is not NaN: the trimmed text is empty or a StrNumericLiteral
StringToNumberIsNaN(cs) ==
    LET t == Trim(cs)
    IN  ~ (t = <<>> \/ IsStrDecimalLiteral(t) \/ IsNonDecimalIntegerLiteral(t))

\* Number.prototype.toString of an integer
RECURSIVE NatToChars(_)
NatToChars(n) ==
    IF n < 10 THEN <<Digits[n + 1]>> ELSE NatToChars(n \div 10) \o <<Digits[(n % 10) + 1]>>

IntToChars(n) == IF n < 0 THEN <<"-">> \o NatToChars(-n) ELSE NatToChars(n)

-----------------------------------------------------------------------------
(* Scalar values: string | number | boolean, plus the two other values the  *)
(* code can read out of a parameter map: undefined, and a function         *)
(* inherited from Object.prototype.                                        *)

StringValue(cs) == [t |-> "string", s |-> cs, n |-> 0, nan |-> FALSE, b |-> FALSE, f |-> ""]

NumberValue(n) == [t |-> "number", s |-> <<>>, n |-> n, nan |-> FALSE, b |-> FALSE, f |-> ""]

NaN == [t |-> "number", s |-> <<>>, n |-> 0, nan |-> TRUE, b |-> FALSE, f |-> ""]

BooleanValue(b) == [t |-> "boolean", s |-> <<>>, n |-> 0, nan |-> FALSE, b |-> b, f |-> ""]

Undefined == [t |-> "undefined", s |-> <<>>, n |-> 0, nan |-> FALSE, b |-> FALSE, f |-> ""]

FunctionValue(name) == [t |-> "function", s |-> <<>>, n |-> 0, nan |-> FALSE, b |-> FALSE, f |-> name]

\* typeof value
TypeOf(v) == v.t

\* String(value)
String(v) ==
    CASE v.t = "string" -> Join(v.s)
      [] v.t = "number" -> IF v.nan THEN "NaN" ELSE Join(IntToChars(v.n))
      [] v.t = "boolean" -> IF v.b THEN "true" ELSE "false"
      [] v.t = "undefined" -> "undefined"
      [] v.t = "function" -> "function " \o v.f \o "() { [native code] }"

\* isNaN(Number(value))
IsNaNNumber(v) ==
    CASE v.t = "string" -> StringToNumberIsNaN(v.s)
      [] v.t = "number" -> v.nan
      [] v.t = "boolean" -> FALSE
      [] v.t = "undefined" -> TRUE
      [] v.t = "function" -> TRUE

-----------------------------------------------------------------------------
(* Parameter maps.  A parameter map is a plain object: its own entries, in  *)
(* Object.entries order, and behind them the members of Object.prototype.   *)

ObjectPrototype ==
    [constructor |-> FunctionValue("Object"),
     toString |-> FunctionValue("toString"),
     valueOf |-> FunctionValue("valueOf"),
     hasOwnProperty |-> FunctionValue("hasOwnProperty")]

OwnKeys(p) == {p[i].name : i \in DOMAIN p}

\* name in params
HasProperty(p, name) == name \in OwnKeys(p) \/ name \in DOMAIN ObjectPrototype

\* params[name]
Get(p, name) ==
    IF name \in OwnKeys(p)
    THEN p[CHOOSE i \in DOMAIN p : p[i].name = name].value
    ELSE IF name \in DOMAIN ObjectPrototype THEN ObjectPrototype[name] ELSE Undefined

\* Object.entries(params)
Entries(p) == p

-----------------------------------------------------------------------------
(* CommandExecutor._validateArgumentType: <<>> for undefined, <<error>>     *)

\* a type check that accepts no value of another type
ValidateArgumentTypeNoCoercion(argDef, value) ==
    IF TypeOf(value) # argDef.type
    THEN <<"Argument '" \o argDef.name \o "' must be a " \o argDef.type>>
    ELSE <<>>

ValidateArgumentType(argDef, value) ==
    CASE argDef.type = "string" ->
            IF TypeOf(value) # "string"
            THEN <<"Argument '" \o argDef.name \o "' must be a string">>
            ELSE <<>>
      [] argDef.type = "number" ->
            IF TypeOf(value) # "number" /\ IsNaNNumber(value)
            THEN <<"Argument '" \o argDef.name \o "' must be a number">>
            ELSE <<>>
      [] argDef.type = "boolean" ->
            IF /\ TypeOf(value) # "boolean"
               /\ value # StringValue(<<"t", "r", "u", "e">>)
               /\ value # StringValue(<<"f", "a", "l", "s", "e">>)
            THEN <<"Argument '" \o argDef.name \o "' must be a boolean">>
            ELSE <<>>
      [] OTHER -> <<>>

-----------------------------------------------------------------------------
(* CommandExecutor.validateParameters *)

\* command.arguments.find(a => a.name === paramName): <<>> or <<argDef>>
Find(arguments, paramName) ==
    IF \E i \in DOMAIN arguments : arguments[i].name = paramName
    THEN <<arguments[CHOOSE i \in DOMAIN arguments :
                /\ arguments[i].name = paramName
                /\ \A j \in 1..(i - 1) : arguments[j].name # paramName]>>
    ELSE <<>>

\* the first loop: one error per required argument that is not `in` params
RECURSIVE CheckRequired(_, _)
CheckRequired(arguments, p) ==
    IF arguments = <<>> THEN <<>>
    ELSE LET arg == Head(arguments)
         IN  (IF arg.required /\ ~ HasProperty(p, arg.name)
              THEN <<"Required argument '" \o arg.name \o "' is missing">>
              ELSE <<>>) \o CheckRequired(Tail(arguments), p)

\* the second loop: one error per entry whose declared type is violated
RECURSIVE CheckTypes(_, _)
CheckTypes(arguments, entries) ==
    IF entries = <<>> THEN <<>>
    ELSE LET argDef == Find(arguments, Head(entries).name)
         IN  (IF argDef # <<>>
              THEN ValidateArgumentType(argDef[1], Head(entries).value)
              ELSE <<>>) \o CheckTypes(arguments, Tail(entries))

\* a validator whose error list is a field that is never cleared between calls
ValidateParametersAccumulating(cmd, p) ==
    (IF prev # <<>> THEN prev[1].errors ELSE <<>>)
    \o CheckRequired(cmd.arguments, p) \o CheckTypes(cmd.arguments, Entries(p))

ValidateParameters(cmd, p) ==
    CheckRequired(cmd.arguments, p) \o CheckTypes(cmd.arguments, Entries(p))

-----------------------------------------------------------------------------
(* CommandExecutor._buildCommandArguments *)

\* a builder that loops over the supplied parameters instead of the declarations
RECURSIVE BuildFromParams(_, _)
BuildFromParams(arguments, p) ==
    IF p = <<>> THEN <<>>
    ELSE <<"--" \o Head(p).name, String(Head(p).value)>> \o BuildFromParams(arguments, Tail(p))

RECURSIVE BuildCommandArguments(_, _)
BuildCommandArguments(arguments, p) ==
    IF arguments = <<>> THEN <<>>
    ELSE LET argDef == Head(arguments)
             given == Get(p, argDef.name)
             value == IF given = Undefined /\ argDef.defaultValue # Undefined
                      THEN argDef.defaultValue
                      ELSE given
         IN  (IF value = Undefined
              THEN <<>>
              ELSE <<"--" \o argDef.name, String(value)>>)
             \o BuildCommandArguments(Tail(arguments), p)

-----------------------------------------------------------------------------
(* CommandExecutor.executeCommand *)

\* the index of the first sep in cs, or 0
FirstIndexOf(cs, sep) ==
    IF \E i \in DOMAIN cs : cs[i] = sep
    THEN CHOOSE i \in DOMAIN cs : cs[i] = sep /\ \A j \in 1..(i - 1) : cs[j] # sep
    ELSE 0

\* String.prototype.split(sep) for a one-character separator: at least one part,
\* an empty part between two adjacent separators and at either end
RECURSIVE Split(_, _)
Split(cs, sep) ==
    LET i == FirstIndexOf(cs, sep)
    IN  IF i = 0 THEN <<cs>>
        ELSE <<SubSeq(cs, 1, i - 1)>> \o Split(SubSeq(cs, i + 1, Len(cs)), sep)

RECURSIVE JoinAll(_)
JoinAll(parts) == IF parts = <<>> THEN <<>> ELSE <<Join(Head(parts))>> \o JoinAll(Tail(parts))

\* command.command.split(' ')
CommandParts(cmd) == JoinAll(Split(cmd.command, " "))

\* the executables Executable.spawnSync can resolve on the modelled host
Installed == {"echo", "git"}

\* What Executable.spawnSync(executable, allArgs) can do.  It throws when the
\* executable cannot be resolved; otherwise it returns the SpawnSyncReturns of the
\* child: a numeric status, or a null status (<<>>) when the child was killed by a
\* signal or could not be run; stdout and stderr are strings, or null (<<>>).
SpawnSync(executable, allArgs) ==
    IF executable \notin Installed
    THEN {[threw |-> TRUE, message |-> "The executable file was not found: " \o executable,
           status |-> <<>>, stdout |-> <<>>, stderr |-> <<>>]}
    ELSE {[threw |-> FALSE, message |-> "", status |-> <<st>>, stdout |-> <<so>>, stderr |-> <<se>>] :
              st \in 0..MaxStatus, so \in {"", "out\n"}, se \in {"", "err\n"}}
         \cup
         {[threw |-> FALSE, message |-> "", status |-> <<>>, stdout |-> so, stderr |-> se] :
              so \in {<<>>, <<"out\n">>}, se \in {<<>>, <<"err\n">>}}
         \cup
         {[threw |-> TRUE, message |-> "spawnSync " \o executable \o " EACCES",
           status |-> <<>>, stdout |-> <<>>, stderr |-> <<>>]}

\* an exit code that only tells success from failure
StatusAsFlag(status) == IF status = <<>> \/ status = <<0>> THEN 0 ELSE 1

\* a catch block that lets the error go on to the caller
Rethrown(o) ==
    [threw |-> TRUE,
     value |-> [success |-> FALSE, stdout |-> "", stderr |-> o.message, exitCode |-> -1]]

\* value || ''
OrEmpty(opt) == IF opt = <<>> THEN "" ELSE opt[1]

\* result.status || 0
StatusOrZero(status) == IF status = <<>> THEN 0 ELSE status[1]

\* the tokens handed to Executable.spawnSync
SpawnRequest(cmd, p) ==
    LET commandParts == CommandParts(cmd)
    IN  [executable |-> commandParts[1],
         allArgs |-> Tail(commandParts) \o BuildCommandArguments(cmd.arguments, p)]

\* the catch block: the result for a thrown error
CaughtResult(o) ==
    [threw |-> FALSE,
     value |-> [success |-> FALSE, stdout |-> "", stderr |-> o.message, exitCode |-> -1]]

\* the end of the try block: the result for a SpawnSyncReturns
ReturnedResult(o) ==
    [threw |-> FALSE,
     value |-> [success |-> (o.status = <<0>>),
                stdout |-> OrEmpty(o.stdout),
                stderr |-> OrEmpty(o.stderr),
                exitCode |-> StatusOrZero(o.status)]]

\* what executeCommand does with the outcome o of the spawn
ExecuteCommandResult(o) == IF o.threw THEN CaughtResult(o) ELSE ReturnedResult(o)

-----------------------------------------------------------------------------
(* Inputs: command declarations and parameter maps *)

ArgNames == {"message", "count", "constructor"}

\* the declared type of each argument name of the modelled configurations
ArgTypeOf(name) ==
    CASE name = "message" -> "string"
      [] name = "count" -> "number"
      [] name = "constructor" -> "boolean"

\* a defaultValue of the declared type
DefaultOf(type) ==
    CASE type = "string" -> StringValue(Chars("hello"))
      [] type = "number" -> NumberValue(10)
      [] type = "boolean" -> BooleanValue(FALSE)

ArgDecls ==
    {[name |-> nm, type |-> ArgTypeOf(nm), required |-> rq, defaultValue |-> dv] :
        nm \in ArgNames, rq \in BOOLEAN, dv \in {Undefined}}
    \cup
    {[name |-> nm, type |-> ArgTypeOf(nm), required |-> rq,
      defaultValue |-> DefaultOf(ArgTypeOf(nm))] : nm \in ArgNames, rq \in BOOLEAN}

\* sequences of at most n elements of S whose names are pairwise distinct
RECURSIVE NamedSeqs(_, _)
NamedSeqs(S, n) ==
    IF n = 0 THEN {<<>>}
    ELSE LET shorter == NamedSeqs(S, n - 1)
         IN  shorter \cup
             {Append(q, e) : q \in {r \in shorter : Len(r) = n - 1},
                             e \in S} 

DistinctNames(q) == \A i, j \in DOMAIN q : i # j => q[i].name # q[j].name

ArgLists == {q \in NamedSeqs(ArgDecls, MaxArgs) : DistinctNames(q)}

ParamKeys == ArgNames \cup {"extra"}

ParamValues == {StringValue(Chars("42")), NumberValue(7), BooleanValue(TRUE)}

ParamEntries == {[name |-> k, value |-> v] : k \in ParamKeys, v \in ParamValues}

\* further values, supplied one at a time for a declared argument
MoreValues ==
    {StringValue(Chars(t)) : t \in {"", "hello", "true", "false", " 7 ", "1e3", "-4.5", "0x1F",
                                    "4 2", "12px", ".", "Infinity", "TRUE"}}
    \cup {NaN, NumberValue(-3), BooleanValue(FALSE)}

ParamMaps ==
    {q \in NamedSeqs(ParamEntries, MaxParams) : DistinctNames(q)}
    \cup {<<[name |-> k, value |-> v]>> : k \in ArgNames, v \in MoreValues}

-----------------------------------------------------------------------------
(* The parts of the state a specification does not use stay as they start *)

HandlerIdle == reply = <<>> /\ prev = <<>>

StartupIdle ==
    /\ phase = "start"
    /\ env = <<>>
    /\ config = <<>>
    /\ tools = <<>>
    /\ connected = FALSE
    /\ exitCode = <<>>
    /\ consulted = <<>>

ManagerIdle == held = <<>> /\ file = "missing" /\ ret = <<>> /\ lastGood = <<>>

ServerIdle == calls = <<>> /\ turn = 0

-----------------------------------------------------------------------------
(* The pure functions applied to every declaration and parameter map *)

PureInit ==
    /\ command = [command |-> Chars("echo"), arguments |-> <<>>]
    /\ params = <<>>
    /\ errors = <<>>
    /\ args = <<>>
    /\ spawned = <<>>
    /\ outcome = <<>>
    /\ result = <<>>
    /\ pc = "idle"
    /\ HandlerIdle /\ StartupIdle /\ ManagerIdle /\ ServerIdle

PureValidate ==
    /\ pc = "idle"
    /\ \E al \in ArgLists, p \in ParamMaps :
        /\ command' = [command |-> Chars("echo"), arguments |-> al]
        /\ params' = p
        /\ errors' = ValidateParameters(command', p)
        /\ args' = <<>>
    /\ pc' = "validated"
    /\ UNCHANGED <<spawned, outcome, result>>
    /\ UNCHANGED <<handlerVars, startupVars, managerVars, serverVars>>

PureBuild ==
    /\ pc = "idle"
    /\ \E al \in ArgLists, p \in ParamMaps :
        /\ command' = [command |-> Chars("echo"), arguments |-> al]
        /\ params' = p
        /\ args' = BuildCommandArguments(al, p)
        /\ errors' = <<>>
    /\ pc' = "built"
    /\ UNCHANGED <<spawned, outcome, result>>
    /\ UNCHANGED <<handlerVars, startupVars, managerVars, serverVars>>

PureNext == PureValidate \/ PureBuild

SpecPure == PureInit /\ [][PureNext]_vars

-----------------------------------------------------------------------------
(* Calls of the executor: a caller picks a command and a parameter map, may *)
(* validate them and executes the command; the spawn is synchronous, so     *)
(* executeCommand is one step.                                              *)

CommandStrings ==
    {Chars(t) : t \in {"echo", "git status", "git  status", " echo", "echo ",
                       "git\tstatus", "nosuch", ""}}

MessageArg ==
    [name |-> "message", type |-> "string", required |-> TRUE, defaultValue |-> Undefined]

CountArg ==
    [name |-> "count", type |-> "number", required |-> FALSE, defaultValue |-> NumberValue(10)]

ExecCommands ==
    {[command |-> cs, arguments |-> al] :
        cs \in CommandStrings, al \in {<<>>, <<MessageArg>>, <<MessageArg, CountArg>>}}

ExecParams ==
    {<<>>,
     <<[name |-> "message", value |-> StringValue(Chars("hello"))]>>,
     <<[name |-> "count", value |-> StringValue(Chars("42"))],
       [name |-> "message", value |-> StringValue(Chars("hello"))]>>}

Init ==
    /\ command = [command |-> Chars("echo"), arguments |-> <<>>]
    /\ params = <<>>
    /\ errors = <<>>
    /\ args = <<>>
    /\ spawned = <<>>
    /\ outcome = <<>>
    /\ result = <<>>
    /\ pc = "idle"
    /\ HandlerIdle /\ StartupIdle /\ ManagerIdle /\ ServerIdle

\* a caller holds a command declaration and a parameter map
Call ==
    /\ pc = "idle"
    /\ command' \in ExecCommands
    /\ params' \in ExecParams
    /\ errors' = <<>>
    /\ args' = <<>>
    /\ spawned' = <<>>
    /\ outcome' = <<>>
    /\ result' = <<>>
    /\ pc' = "called"
    /\ UNCHANGED <<handlerVars, startupVars, managerVars, serverVars>>

\* validateParameters(command, params)
Validate ==
    /\ pc = "called"
    /\ errors' = ValidateParameters(command, params)
    /\ pc' = "validated"
    /\ UNCHANGED <<command, params, args, spawned, outcome, result>>
    /\ UNCHANGED <<handlerVars, startupVars, managerVars, serverVars>>

\* executeCommand(command, params)
Execute ==
    /\ pc \in {"called", "validated"}
    /\ args' = BuildCommandArguments(command.arguments, params)
    /\ LET req == SpawnRequest(command, params)
       IN  /\ spawned' = <<req>>
           /\ \E o \in SpawnSync(req.executable, req.allArgs) :
                /\ outcome' = <<o>>
                /\ LET r == ExecuteCommandResult(o)
                   IN  /\ result' = IF r.threw THEN <<>> ELSE <<r.value>>
                       /\ pc' = IF r.threw THEN "threw" ELSE "returned"
    /\ UNCHANGED <<command, params, errors>>
    /\ UNCHANGED <<handlerVars, startupVars, managerVars, serverVars>>

\* the caller takes the result and is ready for its next call
Finish ==
    /\ pc = "returned"
    /\ pc' = "idle"
    /\ UNCHANGED <<command, params, errors, args, spawned, outcome, result>>
    /\ UNCHANGED <<handlerVars, startupVars, managerVars, serverVars>>

Next == Call \/ Validate \/ Execute \/ Finish

Spec == Init /\ [][Next]_vars

-----------------------------------------------------------------------------
(* The tool handler registerTools gives to the McpServer for a command      *)
(* (src/src/index.ts): validate, then reject or execute, then reply.        *)

\* Array.prototype.join(sep)
RECURSIVE JoinWith(_, _)
JoinWith(q, sep) ==
    IF q = <<>> THEN ""
    ELSE IF Len(q) = 1 THEN q[1]
    ELSE q[1] \o sep \o JoinWith(Tail(q), sep)

\* the message of the Error thrown for a non-empty error list
ValidationFailure(errs) == "Parameter validation failed: " \o JoinWith(errs, ", ")

\* responseText
ResponseText(r) ==
    (IF r.success THEN "Command executed successfully:" ELSE "Command failed:")
    \o "\n\nSTDOUT:\n" \o r.stdout
    \o "\n\nSTDERR:\n" \o r.stderr
    \o "\n\nExit Code: " \o Join(IntToChars(r.exitCode))

\* a reply that takes the error flag from the exit code
ExecutionReplyByExitCode(r) == [text |-> ResponseText(r), isError |-> r.exitCode # 0]

\* the reply for an Execution Result
ExecutionReply(r) == [text |-> ResponseText(r), isError |-> ~ r.success]

\* the reply of the catch block
ErrorReply(message) == [text |-> "Error executing command: " \o message, isError |-> TRUE]

\* a handler without its catch block
HandlerRethrow(message) == [escaped |-> TRUE, reply |-> ErrorReply(message)]

\* the catch block of the handler
HandlerCatch(message) == [escaped |-> FALSE, reply |-> ErrorReply(message)]

\* the commands of the loaded configuration
HandlerCommands ==
    {[command |-> Chars(t), arguments |-> al] :
        t \in {"echo", "git status", "nosuch"},
        al \in {<<MessageArg>>, <<MessageArg, CountArg>>}}

\* the parameter maps the protocol layer hands to the handler
HandlerParams ==
    ExecParams \cup
    {<<[name |-> "count", value |-> StringValue(Chars("12px"))]>>,
     <<[name |-> "message", value |-> NumberValue(7)]>>}

HandlerInit ==
    /\ command = [command |-> Chars("echo"), arguments |-> <<>>]
    /\ params = <<>>
    /\ errors = <<>>
    /\ args = <<>>
    /\ spawned = <<>>
    /\ outcome = <<>>
    /\ result = <<>>
    /\ pc = "idle"
    /\ HandlerIdle /\ StartupIdle /\ ManagerIdle /\ ServerIdle

\* the McpServer invokes the handler of a command with the caller's parameters
HCall ==
    /\ pc = "idle"
    /\ command' \in HandlerCommands
    /\ params' \in HandlerParams
    /\ errors' = <<>>
    /\ args' = <<>>
    /\ spawned' = <<>>
    /\ outcome' = <<>>
    /\ result' = <<>>
    /\ reply' = <<>>
    /\ pc' = "handling"
    /\ UNCHANGED <<prev, startupVars, managerVars, serverVars>>

\* const validationErrors = commandExecutor.validateParameters(command, typedParams)
HValidate ==
    /\ pc = "handling"
    /\ errors' = ValidateParameters(command, params)
    /\ pc' = "validated"
    /\ UNCHANGED <<command, params, args, spawned, outcome, result>>
    /\ UNCHANGED <<handlerVars, startupVars, managerVars, serverVars>>

\* validationErrors.length > 0: throw, and the catch block replies
HReject ==
    /\ pc = "validated"
    /\ errors # <<>>
    /\ LET c == HandlerCatch(ValidationFailure(errors))
       IN  /\ reply' = IF c.escaped THEN <<>> ELSE <<c.reply>>
           /\ pc' = IF c.escaped THEN "escaped" ELSE "replied"
    /\ UNCHANGED <<command, params, errors, args, spawned, outcome, result>>
    /\ UNCHANGED <<prev, startupVars, managerVars, serverVars>>

\* const result = await commandExecutor.executeCommand(command, typedParams)
HExecuteCommand ==
    /\ pc = "validated"
    /\ args' = BuildCommandArguments(command.arguments, params)
    /\ LET req == SpawnRequest(command, params)
       IN  /\ spawned' = <<req>>
           /\ \E o \in SpawnSync(req.executable, req.allArgs) :
                /\ outcome' = <<o>>
                /\ LET r == ExecuteCommandResult(o)
                       c == HandlerCatch(o.message)
                   IN  /\ result' = IF r.threw THEN <<>> ELSE <<r.value>>
                       /\ reply' = IF r.threw /\ ~ c.escaped THEN <<c.reply>> ELSE <<>>
                       /\ pc' = IF ~ r.threw THEN "executed"
                                ELSE IF c.escaped THEN "escaped" ELSE "replied"
    /\ UNCHANGED <<command, params, errors>>
    /\ UNCHANGED <<prev, startupVars, managerVars, serverVars>>

\* a handler that executes whatever the validation returned
HExecuteUnchecked == HExecuteCommand

\* the handler goes on to executeCommand when the error list is empty
HExecute == errors = <<>> /\ HExecuteCommand

\* the reply built from the Execution Result
HRender ==
    /\ pc = "executed"
    /\ reply' = <<ExecutionReply(result[1])>>
    /\ pc' = "replied"
    /\ UNCHANGED <<command, params, errors, args, spawned, outcome, result>>
    /\ UNCHANGED <<prev, startupVars, managerVars, serverVars>>

\* the reply is sent; the call is remembered as the preceding one
HDone ==
    /\ pc = "replied"
    /\ prev' = <<[command |-> command, params |-> params, errors |-> errors,
                  executed |-> (spawned # <<>>), args |-> args]>>
    /\ pc' = "idle"
    /\ UNCHANGED <<command, params, errors, args, spawned, outcome, result, reply>>
    /\ UNCHANGED <<startupVars, managerVars, serverVars>>

HandlerNext == HCall \/ HValidate \/ HReject \/ HExecute \/ HRender \/ HDone

SpecHandler == HandlerInit /\ [][HandlerNext]_vars

-----------------------------------------------------------------------------
(* Configuration documents, validateConfig (schema.ts) and the              *)
(* ConfigurationManager (src/src/configuration.ts)                          *)

EchoTestCommand ==
    [name |-> "echo-test", command |-> Chars("echo"), arguments |-> <<MessageArg>>]

EchoCommand ==
    [name |-> "echo", command |-> Chars("echo"),
     arguments |-> <<[name |-> "message", type |-> "string", required |-> TRUE,
                      defaultValue |-> StringValue(Chars("hello"))],
                     [name |-> "count", type |-> "number", required |-> FALSE,
                      defaultValue |-> Undefined]>>]

ListCommand ==
    [name |-> "list", command |-> Chars("git status"),
     arguments |-> <<[name |-> "constructor", type |-> "boolean", required |-> FALSE,
                      defaultValue |-> BooleanValue(FALSE)],
                     CountArg>>]

\* the texts a configuration source can hold
ValidDocuments == {"none", "one", "two"}
JsonDocuments == {"object"} \cup ValidDocuments
Documents == {"malformed"} \cup JsonDocuments

\* JSON.parse / JsonFile.load of a text that is JSON
JsonValue(doc) ==
    CASE doc = "object" -> [version |-> "1.0"]
      [] doc = "none" -> [version |-> "1.0", commands |-> <<>>]
      [] doc = "one" -> [version |-> "1.0", commands |-> <<EchoTestCommand>>]
      [] doc = "two" -> [version |-> "1.0", commands |-> <<EchoCommand, ListCommand>>]

\* the message of the SyntaxError of JSON.parse
SyntaxErrorMessage == "Unexpected token"

\* config-schema.json: a configuration is an object with version and commands
SchemaAccepts(data) == {"version", "commands"} \subseteq DOMAIN data

\* validateConfig(data): the data itself, or an Error
ValidateConfig(data) ==
    IF SchemaAccepts(data)
    THEN [threw |-> FALSE, value |-> <<data>>, message |-> ""]
    ELSE [threw |-> TRUE, value |-> <<>>,
          message |-> "Configuration validation failed: : must have required property 'commands'"]

\* JSON.parse followed by validateConfig
ParseAndValidate(doc) ==
    IF doc \notin JsonDocuments
    THEN [threw |-> TRUE, value |-> <<>>, message |-> SyntaxErrorMessage]
    ELSE ValidateConfig(JsonValue(doc))

\* what the path of a ConfigurationManager can point at
FileStates == {"missing"} \cup Documents

\* the catch block of loadConfig
LoadFailure(message, h) ==
    [threw |-> TRUE, message |-> "Failed to load configuration: " \o message, held |-> h]

\* a loadConfig that stores the parsed file before it is validated
LoadConfigUnvalidated(h, f) ==
    IF f = "missing" THEN LoadFailure("Configuration file not found: config.json", h)
    ELSE IF f \notin JsonDocuments THEN LoadFailure(SyntaxErrorMessage, h)
    ELSE LET v == ValidateConfig(JsonValue(f))
         IN  IF v.threw THEN LoadFailure(v.message, <<JsonValue(f)>>)
             ELSE [threw |-> FALSE, message |-> "", held |-> v.value]

\* loadConfig with _config = h and the file in state f: the outcome and _config after it
LoadConfig(h, f) ==
    IF f = "missing" THEN LoadFailure("Configuration file not found: config.json", h)
    ELSE IF f \notin JsonDocuments THEN LoadFailure(SyntaxErrorMessage, h)
    ELSE LET v == ValidateConfig(JsonValue(f))
         IN  IF v.threw THEN LoadFailure(v.message, h)
             ELSE IF "commands" \notin DOMAIN v.value[1]
                  THEN LoadFailure("Cannot read properties of undefined (reading 'length')",
                                   v.value)
                  ELSE [threw |-> FALSE, message |-> "", held |-> v.value]

NotLoaded == "Configuration not loaded. Call loadConfig() first."

\* getConfig
GetConfig(h) ==
    IF h = <<>> THEN [threw |-> TRUE, message |-> NotLoaded, value |-> <<>>]
    ELSE [threw |-> FALSE, message |-> "", value |-> h]

\* getCommands
GetCommands(h) ==
    LET c == GetConfig(h)
    IN  IF c.threw THEN c ELSE [threw |-> FALSE, message |-> "", value |-> <<c.value[1].commands>>]

\* getCommand(name): the first command of that name, or undefined
GetCommand(h, name) ==
    LET c == GetCommands(h)
    IN  IF c.threw THEN c
        ELSE LET hits == SelectSeq(c.value[1], LAMBDA cmd : cmd.name = name)
             IN  [threw |-> FALSE, message |-> "",
                  value |-> IF hits = <<>> THEN <<>> ELSE <<hits[1]>>]

\* isLoaded
IsLoaded(h) == h # <<>>

CommandNames == {"echo-test", "echo", "list", "absent"}

ConfigInit ==
    /\ command = [command |-> Chars("echo"), arguments |-> <<>>]
    /\ params = <<>> /\ errors = <<>> /\ args = <<>>
    /\ spawned = <<>> /\ outcome = <<>> /\ result = <<>> /\ pc = "idle"
    /\ HandlerIdle /\ StartupIdle /\ ManagerIdle /\ ServerIdle

\* the file at the manager's path is created, rewritten or removed
WriteFile ==
    /\ file' \in FileStates \ {file}
    /\ ret' = <<>>
    /\ UNCHANGED <<held, lastGood, execVars, handlerVars, startupVars, serverVars>>

CallLoadConfig ==
    /\ LET l == LoadConfig(held, file)
       IN  /\ held' = l.held
           /\ ret' = <<[op |-> "loadConfig", threw |-> l.threw, message |-> l.message,
                        value |-> <<>>]>>
           /\ lastGood' = IF l.threw THEN lastGood ELSE <<JsonValue(file)>>
    /\ UNCHANGED <<file, execVars, handlerVars, startupVars, serverVars>>

CallGetConfig ==
    /\ LET g == GetConfig(held)
       IN  ret' = <<[op |-> "getConfig", threw |-> g.threw, message |-> g.message,
                     value |-> g.value]>>
    /\ UNCHANGED <<held, file, lastGood, execVars, handlerVars, startupVars, serverVars>>

CallGetCommands ==
    /\ LET g == GetCommands(held)
       IN  ret' = <<[op |-> "getCommands", threw |-> g.threw, message |-> g.message,
                     value |-> g.value]>>
    /\ UNCHANGED <<held, file, lastGood, execVars, handlerVars, startupVars, serverVars>>

CallGetCommand ==
    /\ \E name \in CommandNames :
         LET g == GetCommand(held, name)
         IN  ret' = <<[op |-> "getCommand", threw |-> g.threw, message |-> g.message,
                       value |-> g.value]>>
    /\ UNCHANGED <<held, file, lastGood, execVars, handlerVars, startupVars, serverVars>>

CallIsLoaded ==
    /\ ret' = <<[op |-> "isLoaded", threw |-> FALSE, message |-> "",
                 value |-> <<IsLoaded(held)>>]>>
    /\ UNCHANGED <<held, file, lastGood, execVars, handlerVars, startupVars, serverVars>>

ConfigNext ==
    \/ WriteFile \/ CallLoadConfig \/ CallGetConfig
    \/ CallGetCommands \/ CallGetCommand \/ CallIsLoaded

SpecConfig == ConfigInit /\ [][ConfigNext]_vars

-----------------------------------------------------------------------------
(* Startup (src/src/index.ts): parseArguments, resolveConfiguration,        *)
(* registerTools and server.connect, as main runs them                      *)

\* a JSON string given by --config or MCP_CLI_CONFIG_JSON
TextStates == {"absent", "empty"} \cup Documents

\* a path given by --config-file or MCP_CLI_CONFIG_PATH, by what it points at
PathStates == {"absent", "empty"} \cup FileStates

\* standard input: ended without data, whitespace only, never ended, failed, or a text
StdinStates == {"empty", "blank", "open", "error"} \cup Documents

Environments ==
    [config : TextStates, configFile : PathStates,
     envJson : TextStates, envPath : PathStates, stdin : StdinStates]

\* if (args.config), if (args.configFile), if (CONFIG_JSON_ENV), if (CONFIG_FILE_PATH_ENV)
Truthy(s) == s \notin {"absent", "empty"}

Failed(message, source) ==
    [threw |-> TRUE, message |-> message, value |-> <<>>, consulted |-> <<source>>]

Resolved(cfg, source) ==
    [threw |-> FALSE, message |-> "", value |-> cfg, consulted |-> <<source>>]

\* JSON.parse and validateConfig inside try/catch, the error rethrown with a prefix
FromText(doc, prefix, source) ==
    LET p == ParseAndValidate(doc)
    IN  IF p.threw THEN Failed(prefix \o p.message, source) ELSE Resolved(p.value, source)

\* new ConfigurationManager(path); await loadConfig(); return getConfig()
FromFile(f, source) ==
    LET l == LoadConfig(<<>>, f)
        g == GetConfig(l.held)
    IN  IF l.threw THEN Failed(l.message, source)
        ELSE IF g.threw THEN Failed(g.message, source)
        ELSE Resolved(g.value, source)

\* readConfigFromStdin, then the stdin branch of resolveConfiguration
FromStdin(s) ==
    LET prefix == "Failed to read/parse configuration from stdin: "
    IN  IF s = "error" THEN Failed(prefix \o "read error", "stdin")
        ELSE IF s \in {"empty", "blank"}
        THEN Failed(prefix \o "No configuration provided via stdin", "stdin")
        ELSE FromText(s, prefix, "stdin")

\* a resolveConfiguration that looks at the environment before the command line
ResolveEnvironmentFirst(e) ==
    IF Truthy(e.envJson)
    THEN FromText(e.envJson, "Failed to parse MCP_CLI_CONFIG_JSON: ", "MCP_CLI_CONFIG_JSON")
    ELSE IF Truthy(e.envPath) THEN FromFile(e.envPath, "MCP_CLI_CONFIG_PATH")
    ELSE IF Truthy(e.config)
    THEN FromText(e.config, "Failed to parse --config JSON: ", "--config")
    ELSE IF Truthy(e.configFile) THEN FromFile(e.configFile, "--config-file")
    ELSE FromStdin(e.stdin)

\* resolveConfiguration
ResolveConfiguration(e) ==
    IF Truthy(e.config)
    THEN FromText(e.config, "Failed to parse --config JSON: ", "--config")
    ELSE IF Truthy(e.configFile) THEN FromFile(e.configFile, "--config-file")
    ELSE IF Truthy(e.envJson)
    THEN FromText(e.envJson, "Failed to parse MCP_CLI_CONFIG_JSON: ", "MCP_CLI_CONFIG_JSON")
    ELSE IF Truthy(e.envPath) THEN FromFile(e.envPath, "MCP_CLI_CONFIG_PATH")
    ELSE FromStdin(e.stdin)

\* the promise of readConfigFromStdin is never settled: no 'end', no 'error'
AwaitsStdin(e) ==
    /\ ~ Truthy(e.config) /\ ~ Truthy(e.configFile)
    /\ ~ Truthy(e.envJson) /\ ~ Truthy(e.envPath)
    /\ e.stdin = "open"

\* a schema entry that is optional whenever a value need not be supplied
ZodTypeLenient(arg) ==
    [type |-> arg.type,
     optional |-> (~ arg.required) \/ arg.defaultValue # Undefined,
     default |-> IF arg.defaultValue # Undefined THEN <<arg.defaultValue>> ELSE <<>>]

\* the zod type built for an argument: base type, .optional(), .default(value)
ZodType(arg) ==
    [type |-> IF arg.type \in {"string", "number", "boolean"} THEN arg.type ELSE "string",
     optional |-> ~ arg.required,
     default |-> IF arg.defaultValue # Undefined THEN <<arg.defaultValue>> ELSE <<>>]

\* obj[name] = value on an object kept as its own entries in insertion order
SetProperty(obj, name, value) ==
    IF \E i \in DOMAIN obj : obj[i].name = name
    THEN [i \in DOMAIN obj |->
            IF obj[i].name = name THEN [name |-> name, value |-> value] ELSE obj[i]]
    ELSE Append(obj, [name |-> name, value |-> value])

\* schemaObject after the loop over command.arguments
RECURSIVE SchemaObject(_, _)
SchemaObject(arguments, obj) ==
    IF arguments = <<>> THEN obj
    ELSE SchemaObject(Tail(arguments),
                      SetProperty(obj, Head(arguments).name, ZodType(Head(arguments))))

\* what server.tool is given for a command
Tool(cmd) == [name |-> cmd.name, schema |-> SchemaObject(cmd.arguments, <<>>)]

\* the catch block of main: process.exit(1)
MainCatch == [phase |-> "exited", exitCode |-> <<1>>]

\* a main that goes on without commands when the configuration cannot be resolved
MainAfterResolveLenient(r) ==
    IF r.threw
    THEN [phase |-> "resolved", exitCode |-> <<>>,
          config |-> <<[version |-> "1.0", commands |-> <<>>]>>]
    ELSE [phase |-> "resolved", exitCode |-> <<>>, config |-> r.value]

\* main after await resolveConfiguration(args)
MainAfterResolve(r) ==
    IF r.threw
    THEN [phase |-> MainCatch.phase, exitCode |-> MainCatch.exitCode, config |-> <<>>]
    ELSE [phase |-> "resolved", exitCode |-> <<>>, config |-> r.value]

StartupInit ==
    /\ command = [command |-> Chars("echo"), arguments |-> <<>>]
    /\ params = <<>> /\ errors = <<>> /\ args = <<>>
    /\ spawned = <<>> /\ outcome = <<>> /\ result = <<>> /\ pc = "idle"
    /\ HandlerIdle /\ StartupIdle /\ ManagerIdle /\ ServerIdle

\* const args = await parseArguments(), with the environment read at module load
ParseArguments ==
    /\ phase = "start"
    /\ env' \in {<<e>> : e \in Environments}
    /\ phase' = "parsed"
    /\ UNCHANGED <<config, tools, connected, exitCode, consulted>>
    /\ UNCHANGED <<execVars, handlerVars, managerVars, serverVars>>

\* const config = await resolveConfiguration(args)
Resolve ==
    /\ phase = "parsed"
    /\ ~ AwaitsStdin(env[1])
    /\ LET r == ResolveConfiguration(env[1])
           m == MainAfterResolve(r)
       IN  /\ consulted' = r.consulted
           /\ config' = m.config
           /\ phase' = m.phase
           /\ exitCode' = m.exitCode
    /\ UNCHANGED <<env, tools, connected>>
    /\ UNCHANGED <<execVars, handlerVars, managerVars, serverVars>>

\* await registerTools(config): a tool for every command
RegisterTools ==
    /\ phase = "resolved"
    /\ tools' = [i \in DOMAIN config[1].commands |-> Tool(config[1].commands[i])]
    /\ phase' = "registered"
    /\ UNCHANGED <<env, config, connected, exitCode, consulted>>
    /\ UNCHANGED <<execVars, handlerVars, managerVars, serverVars>>

\* server.tool throws for the k+1st command; main's catch exits
RegisterToolsThrows ==
    /\ phase = "resolved"
    /\ \E k \in 0 .. Len(config[1].commands) - 1 :
         tools' = [i \in 1 .. k |-> Tool(config[1].commands[i])]
    /\ phase' = MainCatch.phase
    /\ exitCode' = MainCatch.exitCode
    /\ UNCHANGED <<env, config, connected, consulted>>
    /\ UNCHANGED <<execVars, handlerVars, managerVars, serverVars>>

\* await server.connect(transport)
Connect ==
    /\ phase = "registered"
    /\ connected' = TRUE
    /\ phase' = "running"
    /\ UNCHANGED <<env, config, tools, exitCode, consulted>>
    /\ UNCHANGED <<execVars, handlerVars, managerVars, serverVars>>

\* server.connect rejects; main's catch exits
ConnectThrows ==
    /\ phase = "registered"
    /\ phase' = MainCatch.phase
    /\ exitCode' = MainCatch.exitCode
    /\ UNCHANGED <<env, config, tools, connected, consulted>>
    /\ UNCHANGED <<execVars, handlerVars, managerVars, serverVars>>

StartupNext ==
    \/ ParseArguments \/ Resolve \/ RegisterTools \/ RegisterToolsThrows
    \/ Connect \/ ConnectThrows

SpecStartup == StartupInit /\ [][StartupNext]_vars

-----------------------------------------------------------------------------
(* Tool calls in one server process: the handlers of server.tool run on the *)
(* single thread of the event loop; turn is the call whose handler holds    *)
(* the thread, 0 when the event loop is free to start another callback      *)

\* a request waiting for its handler to be called
Queued(valid) == [pc |-> "queued", valid |-> valid, hangs |-> FALSE]

\* a spawn that hands the thread back while the child runs (Executable.spawn)
TurnWhileChildRuns(i) == 0

\* Executable.spawnSync returns when the child has exited: the thread stays with the call
TurnInSpawnSync(i) == i

ServerInit ==
    /\ command = [command |-> Chars("echo"), arguments |-> <<>>]
    /\ params = <<>> /\ errors = <<>> /\ args = <<>>
    /\ spawned = <<>> /\ outcome = <<>> /\ result = <<>> /\ pc = "idle"
    /\ HandlerIdle /\ StartupIdle /\ ManagerIdle /\ ServerIdle

\* the transport receives a tools/call request
Arrive ==
    /\ Len(calls) < MaxCalls
    /\ \E valid \in BOOLEAN : calls' = Append(calls, Queued(valid))
    /\ UNCHANGED <<turn, execVars, handlerVars, startupVars, managerVars>>

\* the handler of call i is entered and validateParameters has returned
Begin(i) ==
    /\ turn = 0
    /\ calls[i].pc = "queued"
    /\ calls' = [calls EXCEPT ![i].pc = "validated"]
    /\ turn' = i
    /\ UNCHANGED <<execVars, handlerVars, startupVars, managerVars>>

\* validation errors: throw, catch, return the error reply
Reject(i) ==
    /\ turn = i
    /\ calls[i].pc = "validated"
    /\ ~ calls[i].valid
    /\ calls' = [calls EXCEPT ![i].pc = "replied"]
    /\ turn' = 0
    /\ UNCHANGED <<execVars, handlerVars, startupVars, managerVars>>

\* executeCommand reaches Executable.spawnSync: the child runs
SpawnChild(i) ==
    /\ turn = i
    /\ calls[i].pc = "validated"
    /\ calls[i].valid
    /\ \E h \in BOOLEAN : calls' = [calls EXCEPT ![i].pc = "spawned", ![i].hangs = h]
    /\ turn' = TurnInSpawnSync(i)
    /\ UNCHANGED <<execVars, handlerVars, startupVars, managerVars>>

\* the child exits, executeCommand returns its result and the handler's await yields
ChildExit(i) ==
    /\ turn = TurnInSpawnSync(i)
    /\ calls[i].pc = "spawned"
    /\ ~ calls[i].hangs
    /\ calls' = [calls EXCEPT ![i].pc = "awaiting"]
    /\ turn' = 0
    /\ UNCHANGED <<execVars, handlerVars, startupVars, managerVars>>

\* the handler resumes after the await and returns the reply
Resume(i) ==
    /\ turn = 0
    /\ calls[i].pc = "awaiting"
    /\ calls' = [calls EXCEPT ![i].pc = "replied"]
    /\ turn' = 0
    /\ UNCHANGED <<execVars, handlerVars, startupVars, managerVars>>

ServerNext ==
    \/ Arrive
    \/ \E i \in DOMAIN calls : Begin(i)
    \/ \E i \in DOMAIN calls : Reject(i)
    \/ \E i \in DOMAIN calls : SpawnChild(i)
    \/ \E i \in DOMAIN calls : ChildExit(i)
    \/ \E i \in DOMAIN calls : Resume(i)

SpecServer == ServerInit /\ [][ServerNext]_vars

-----------------------------------------------------------------------------
(* Properties of validateParameters and _buildCommandArguments (SpecPure)   *)

Contains(q, x) == \E i \in DOMAIN q : q[i] = x

MissingMessage(name) == "Required argument '" \o name \o "' is missing"

TypeMessage(name, type) == "Argument '" \o name \o "' must be a " \o type

DeclaredNames(cmd) == {cmd.arguments[i].name : i \in DOMAIN cmd.arguments}

\* the declaration of a declared name (names are unique within a command)
DeclOf(cmd, name) ==
    cmd.arguments[CHOOSE i \in DOMAIN cmd.arguments : cmd.arguments[i].name = name]

\* the entries of p whose key is not name
RECURSIVE Without(_, _)
Without(p, name) ==
    IF p = <<>> THEN <<>>
    ELSE (IF Head(p).name = name THEN <<>> ELSE <<Head(p)>>) \o Without(Tail(p), name)

\* the value the caller supplied for name
Supplied(p, name) == p[CHOOSE i \in DOMAIN p : p[i].name = name].value

\* C1: every required argument whose name is absent from the parameter map is
\* reported with "Required argument '<name>' is missing", and an absent optional
\* argument produces no error at all.
C1_RequiredMissingReported ==
    pc = "validated" =>
        \A i \in DOMAIN command.arguments :
            LET a == command.arguments[i]
            IN  a.name \notin OwnKeys(params) =>
                    /\ a.required => Contains(errors, MissingMessage(a.name))
                    /\ ~ a.required =>
                          /\ ~ Contains(errors, MissingMessage(a.name))
                          /\ ~ Contains(errors, TypeMessage(a.name, a.type))

\* C1 restricted to argument names that Object.prototype does not define
C1_HoldsForOrdinaryNames ==
    pc = "validated" =>
        \A i \in DOMAIN command.arguments :
            LET a == command.arguments[i]
            IN  (a.name \notin OwnKeys(params) /\ a.name \notin DOMAIN ObjectPrototype) =>
                    /\ a.required => Contains(errors, MissingMessage(a.name))
                    /\ ~ a.required =>
                          /\ ~ Contains(errors, MissingMessage(a.name))
                          /\ ~ Contains(errors, TypeMessage(a.name, a.type))

\* C2: a parameter whose key matches no declared argument produces no error,
\* whatever its value, and leaves no trace in the argument vector: there is no
\* flag token for the key, and the errors and the vector are the ones obtained
\* without that parameter.
C2_UnknownParameterIgnored ==
    \A i \in DOMAIN params :
        LET k == params[i].name
        IN  k \notin DeclaredNames(command) =>
                /\ pc = "validated" =>
                      /\ \A j \in DOMAIN errors :
                            /\ errors[j] # MissingMessage(k)
                            /\ \A ty \in {"string", "number", "boolean"} :
                                  errors[j] # TypeMessage(k, ty)
                      /\ errors = ValidateParameters(command, Without(params, k))
                /\ pc = "built" =>
                      /\ ~ Contains(args, "--" \o k)
                      /\ args = BuildCommandArguments(command.arguments, Without(params, k))

C2_Witness ==
    /\ pc = "built"
    /\ \E i \in DOMAIN params : params[i].name = "extra"
    /\ Len(params) = 2
    /\ Len(args) = 4

\* the cases in which a supplied value violates a declared type
TypeViolation(type, v) ==
    CASE type = "string" -> TypeOf(v) # "string"
      [] type = "number" -> TypeOf(v) # "number" /\ IsNaNNumber(v)
      [] type = "boolean" ->
            /\ TypeOf(v) # "boolean"
            /\ ~ (TypeOf(v) = "string" /\ Join(v.s) \in {"true", "false"})

\* C3: for a supplied parameter that matches a declared argument the type error
\* "Argument '<name>' must be a <type>" is reported exactly when the value violates
\* the declared type; the string "42" passes as a number, and no string but "true"
\* and "false" passes as a boolean.
C3_TypeErrorExactlyOnViolation ==
    pc = "validated" =>
        \A i \in DOMAIN params :
            LET k == params[i].name
                v == params[i].value
            IN  k \in DeclaredNames(command) =>
                    LET ty == DeclOf(command, k).type
                        reported == Contains(errors, TypeMessage(k, ty))
                    IN  /\ reported <=> TypeViolation(ty, v)
                        /\ (ty = "number" /\ v = StringValue(<<"4", "2">>)) => ~ reported
                        /\ (ty = "number" /\ TypeOf(v) = "number") => ~ reported
                        /\ (ty = "number" /\ TypeOf(v) = "string"
                              /\ Join(v.s) \in {"hello", "12px", "4 2", ".", "true", "TRUE"})
                             => reported
                        /\ (ty = "number" /\ TypeOf(v) = "string"
                              /\ Join(v.s) \in {"", " 7 ", "1e3", "-4.5", "0x1F", "Infinity"})
                             => ~ reported
                        /\ (ty = "boolean" /\ TypeOf(v) = "string")
                             => (reported <=> Join(v.s) \notin {"true", "false"})
                        /\ (ty = "boolean" /\ TypeOf(v) = "number") => reported
                        /\ (ty = "string") => (reported <=> TypeOf(v) # "string")

C3_Witness ==
    /\ pc = "validated"
    /\ command.arguments = <<[name |-> "count", type |-> "number", required |-> TRUE,
                              defaultValue |-> Undefined]>>
    /\ params = <<[name |-> "count", value |-> StringValue(<<"4", "2">>)]>>
    /\ errors = <<>>

\* the missing-argument errors the specification lists: one per required argument
\* absent from the parameter map, in declaration order
RECURSIVE ClaimedMissing(_, _)
ClaimedMissing(arguments, p) ==
    IF arguments = <<>> THEN <<>>
    ELSE (IF Head(arguments).required /\ Head(arguments).name \notin OwnKeys(p)
          THEN <<MissingMessage(Head(arguments).name)>>
          ELSE <<>>) \o ClaimedMissing(Tail(arguments), p)

\* the type errors the specification lists: one per supplied declared parameter
\* whose value violates its type, in parameter-map order
RECURSIVE ClaimedTypeErrors(_, _)
ClaimedTypeErrors(cmd, entries) ==
    IF entries = <<>> THEN <<>>
    ELSE LET k == Head(entries).name
         IN  (IF k \in DeclaredNames(cmd) /\ TypeViolation(DeclOf(cmd, k).type, Head(entries).value)
              THEN <<TypeMessage(k, DeclOf(cmd, k).type)>>
              ELSE <<>>) \o ClaimedTypeErrors(cmd, Tail(entries))

\* C4: the returned list is the missing-argument errors in declaration order
\* followed by the type errors in parameter-map order and nothing else; it is
\* empty exactly when there is no absent required argument and no violated type.
C4_AllErrorsCollected ==
    pc = "validated" =>
        /\ errors = ClaimedMissing(command.arguments, params)
                      \o ClaimedTypeErrors(command, params)
        /\ (errors = <<>>) <=>
              /\ \A i \in DOMAIN command.arguments :
                    command.arguments[i].required =>
                        command.arguments[i].name \in OwnKeys(params)
              /\ \A i \in DOMAIN params :
                    params[i].name \in DeclaredNames(command) =>
                        ~ TypeViolation(DeclOf(command, params[i].name).type, params[i].value)

\* C4 for commands none of whose argument names Object.prototype defines
C4_HoldsForOrdinaryNames ==
    (pc = "validated" /\ DeclaredNames(command) \cap DOMAIN ObjectPrototype = {}) =>
        /\ errors = ClaimedMissing(command.arguments, params)
                      \o ClaimedTypeErrors(command, params)

\* the value the specification resolves for a declared argument: the caller's
\* value if the parameter map has one, else the declared default, else none
ClaimedValue(argDef, p) ==
    IF argDef.name \in OwnKeys(p) THEN Supplied(p, argDef.name) ELSE argDef.defaultValue

\* the position of the flag of name in the vector, or 0
FlagIndex(vector, name) ==
    IF \E j \in DOMAIN vector : j % 2 = 1 /\ vector[j] = "--" \o name
    THEN CHOOSE j \in DOMAIN vector : j % 2 = 1 /\ vector[j] = "--" \o name
    ELSE 0

\* C5: each declared argument contributes the caller's value if the parameter map
\* has one, otherwise its declared default, otherwise nothing; a supplied value
\* overrides the default.
C5_ValueResolution ==
    pc = "built" =>
        \A i \in DOMAIN command.arguments :
            LET a == command.arguments[i]
                v == ClaimedValue(a, params)
                j == FlagIndex(args, a.name)
            IN  IF v = Undefined
                THEN j = 0
                ELSE j # 0 /\ args[j + 1] = String(v)

\* C5 for argument names that Object.prototype does not define
C5_HoldsForOrdinaryNames ==
    pc = "built" =>
        \A i \in DOMAIN command.arguments :
            LET a == command.arguments[i]
                v == ClaimedValue(a, params)
                j == FlagIndex(args, a.name)
            IN  a.name \notin DOMAIN ObjectPrototype =>
                    IF v = Undefined
                    THEN j = 0
                    ELSE j # 0 /\ args[j + 1] = String(v)

\* the vector the specification describes: a pair per resolved argument
RECURSIVE ClaimedVector(_, _)
ClaimedVector(arguments, p) ==
    IF arguments = <<>> THEN <<>>
    ELSE (IF ClaimedValue(Head(arguments), p) = Undefined
          THEN <<>>
          ELSE <<"--" \o Head(arguments).name, String(ClaimedValue(Head(arguments), p))>>)
         \o ClaimedVector(Tail(arguments), p)

\* C6: the vector is the sequence of pairs ("--<name>", string form of the resolved
\* value), one per declared argument that resolved to a value, in declaration
\* order whatever the order of the keys of the parameter map; its length is even
\* and every flag position holds "--" and a declared name.
C6_PairsInDeclarationOrder ==
    pc = "built" =>
        /\ args = ClaimedVector(command.arguments, params)
        /\ Len(args) % 2 = 0
        /\ \A j \in DOMAIN args :
              j % 2 = 1 => \E n \in DeclaredNames(command) : args[j] = "--" \o n

\* C6 for commands none of whose argument names Object.prototype defines
C6_HoldsForOrdinaryNames ==
    (pc = "built" /\ DeclaredNames(command) \cap DOMAIN ObjectPrototype = {}) =>
        /\ args = ClaimedVector(command.arguments, params)
        /\ Len(args) % 2 = 0
        /\ \A j \in DOMAIN args :
              j % 2 = 1 => \E n \in DeclaredNames(command) : args[j] = "--" \o n

-----------------------------------------------------------------------------
(* Properties of executeCommand (Spec) *)

\* the tokens of cs between runs of whitespace, none of them empty
RECURSIVE WhitespaceTokens(_)
WhitespaceTokens(cs) ==
    LET t == TrimStart(cs)
        n == IF \E i \in DOMAIN t : IsWhiteSpace(t[i])
             THEN (CHOOSE i \in DOMAIN t :
                      IsWhiteSpace(t[i]) /\ \A j \in 1..(i - 1) : ~ IsWhiteSpace(t[j])) - 1
             ELSE Len(t)
    IN  IF t = <<>> THEN <<>>
        ELSE <<Join(SubSeq(t, 1, n))>> \o WhitespaceTokens(SubSeq(t, n + 1, Len(t)))

\* C7: the command string is split on whitespace; the first token is spawned as
\* the executable with the remaining tokens followed by the per-call vector as
\* arguments, and no empty token is passed as the executable or as a fixed argument.
C7_SplitOnWhitespace ==
    (pc = "returned" /\ WhitespaceTokens(command.command) # <<>>) =>
        LET tokens == WhitespaceTokens(command.command)
        IN  /\ spawned[1].executable = tokens[1]
            /\ spawned[1].allArgs = Tail(tokens) \o args
            /\ spawned[1].executable # ""
            /\ \A i \in 1..(Len(spawned[1].allArgs) - Len(args)) : spawned[1].allArgs[i] # ""

\* a command string whose words are separated by single spaces only
SingleSpaced(cs) ==
    /\ cs # <<>>
    /\ cs[1] # " " /\ cs[Len(cs)] # " "
    /\ \A i \in DOMAIN cs : cs[i] \notin {"\t", "\n", "\r"}
    /\ \A i \in 1..(Len(cs) - 1) : ~ (cs[i] = " " /\ cs[i + 1] = " ")

\* C7 for command strings whose words are separated by single spaces
C7_HoldsForSingleSpaces ==
    (pc = "returned" /\ SingleSpaced(command.command)) =>
        LET tokens == WhitespaceTokens(command.command)
        IN  /\ spawned[1].executable = tokens[1]
            /\ spawned[1].allArgs = Tail(tokens) \o args
            /\ spawned[1].executable # ""
            /\ \A i \in 1..(Len(spawned[1].allArgs) - Len(args)) : spawned[1].allArgs[i] # ""

\* C8: in every returned result, success is true if and only if exitCode is 0.
C8_SuccessIffExitCodeZero ==
    pc = "returned" => (result[1].success <=> result[1].exitCode = 0)

\* C8 for the outcomes that carry an exit status or are a thrown error
C8_HoldsWithExitStatus ==
    (pc = "returned" /\ (outcome[1].threw \/ outcome[1].status # <<>>)) =>
        (result[1].success <=> result[1].exitCode = 0)

C10_ExecuteIsTotal ==
    /\ pc # "threw"
    /\ pc \in {"called", "validated"} => ENABLED Execute
    /\ pc = "returned" =>
          /\ Len(result) = 1
          /\ outcome[1].threw =>
                /\ result[1] = [success |-> FALSE, stdout |-> "", exitCode |-> -1,
                                stderr |-> outcome[1].message]
                /\ result[1].stderr # ""
          /\ spawned[1].executable \notin Installed => outcome[1].threw

C10_Witness ==
    /\ pc = "returned"
    /\ spawned[1].executable = "nosuch"
    /\ result[1] = [success |-> FALSE, stdout |-> "", exitCode |-> -1,
                    stderr |-> "The executable file was not found: nosuch"]

-----------------------------------------------------------------------------
(* Properties of the tool handler (SpecHandler) *)

\* C11: a process is spawned only after validateParameters returned the empty
\* list for the command and parameters of the same call; when the list is not
\* empty the call is answered with an error reply whose text holds all the errors
\* joined by ", ", and nothing is spawned for that call.
C11_ExecuteOnlyAfterValidation ==
    /\ [](/\ pc = "handling" => spawned = <<>>
          /\ spawned # <<>> =>
                /\ pc \in {"executed", "replied", "idle"}
                /\ errors = <<>>
                /\ CheckRequired(command.arguments, params) = <<>>
                /\ CheckTypes(command.arguments, Entries(params)) = <<>>
          /\ (pc = "replied" /\ errors # <<>>) =>
                /\ spawned = <<>>
                /\ result = <<>>
                /\ reply[1].isError
                /\ reply[1].text = "Error executing command: Parameter validation failed: "
                                      \o JoinWith(errors, ", ")
                /\ errors = CheckRequired(command.arguments, params)
                               \o CheckTypes(command.arguments, Entries(params)))
    /\ [][spawned' # spawned /\ spawned' # <<>> => pc = "validated" /\ errors = <<>>]_vars

C11_Witness ==
    /\ pc = "replied"
    /\ errors = <<"Required argument 'message' is missing", "Argument 'count' must be a number">>
    /\ spawned = <<>>
    /\ reply = <<[text |-> "Error executing command: Parameter validation failed: "
                            \o "Required argument 'message' is missing, "
                            \o "Argument 'count' must be a number",
                  isError |-> TRUE]>>

\* C12: for a call that reached execution the reply is marked as an error exactly
\* when the Execution Result has success=false, and its text is the success or
\* failure label followed by the stdout, the stderr and the exitCode of the result.
C12_ReplyRendersResult ==
    (pc = "replied" /\ result # <<>>) =>
        LET r == result[1]
        IN  /\ reply[1].isError <=> (r.success = FALSE)
            /\ reply[1].text =
                  (IF r.success THEN "Command executed successfully:" ELSE "Command failed:")
                  \o "\n\nSTDOUT:\n" \o r.stdout \o "\n\nSTDERR:\n" \o r.stderr
                  \o "\n\nExit Code: "
                  \o (CASE r.exitCode = -1 -> "-1"
                        [] r.exitCode = 0 -> "0"
                        [] r.exitCode = 1 -> "1"
                        [] r.exitCode = 2 -> "2"
                        [] r.exitCode = 3 -> "3"
                        [] OTHER -> "?")

C12_Witness ==
    /\ pc = "replied"
    /\ result = <<[success |-> TRUE, stdout |-> "out\n", stderr |-> "", exitCode |-> 0]>>
    /\ reply = <<[text |-> "Command executed successfully:\n\nSTDOUT:\nout\n\n\nSTDERR:\n\n\nExit Code: 0",
                  isError |-> FALSE]>>

\* C13: a tool call gets exactly one well-formed reply and no exception leaves the
\* handler: the reply is the rendered Execution Result or, for a validation
\* failure or an exception inside the handler, the text "Error executing command:
\* <message>" with isError=true.
C13_AlwaysOneReply ==
    /\ [](/\ pc # "escaped"
          /\ pc \in {"handling", "validated", "executed"} => reply = <<>> /\ ENABLED HandlerNext
          /\ pc = "replied" =>
                /\ Len(reply) = 1
                /\ \/ /\ result # <<>>
                      /\ reply[1] = [text |-> ResponseText(result[1]),
                                     isError |-> ~ result[1].success]
                   \/ /\ result = <<>>
                      /\ errors # <<>>
                      /\ reply[1] = [text |-> "Error executing command: "
                                                \o ValidationFailure(errors),
                                     isError |-> TRUE])
    /\ [][reply # <<>> => (reply' = reply \/ (pc = "idle" /\ reply' = <<>>))]_vars

C13_Witness ==
    /\ pc = "replied"
    /\ outcome # <<>> /\ outcome[1].threw
    /\ reply[1].isError
    /\ result[1].exitCode = -1

-----------------------------------------------------------------------------
(* Properties of the ConfigurationManager (SpecConfig) *)

\* C17: after any sequence of loadConfig, getConfig, getCommands, getCommand and
\* isLoaded calls, isLoaded returns true exactly when an earlier loadConfig
\* succeeded; getConfig and getCommands throw "Configuration not loaded. Call
\* loadConfig() first." exactly when isLoaded is false; a loadConfig that fails
\* throws and leaves the held configuration as it was; and getConfig returns the
\* configuration of the most recent successful loadConfig.
C17_ManagerHoldsLastGoodConfig ==
    /\ [](ret # <<>> =>
            LET r == ret[1]
            IN  /\ r.op = "isLoaded" => r.value = <<lastGood # <<>>>>
                /\ r.op \in {"getConfig", "getCommands"} =>
                      /\ r.threw <=> lastGood = <<>>
                      /\ r.threw <=> (held = <<>>)
                      /\ r.threw => r.message = "Configuration not loaded. Call loadConfig() first."
                /\ (r.op = "getConfig" /\ ~ r.threw) => r.value = lastGood
                /\ (r.op = "getCommands" /\ ~ r.threw) => r.value = <<lastGood[1].commands>>
                /\ r.op = "loadConfig" => (r.threw <=> file \notin ValidDocuments))
    /\ [][(ret' # <<>> /\ ret'[1].op = "loadConfig" /\ ret'[1].threw) => held' = held]_vars
    /\ [][(ret' # <<>> /\ ret'[1].op = "loadConfig" /\ ~ ret'[1].threw) =>
              held' = <<JsonValue(file)>>]_vars

C17_Witness ==
    /\ ret # <<>>
    /\ ret[1].op = "loadConfig"
    /\ ret[1].threw
    /\ file = "object"
    /\ held = <<[version |-> "1.0", commands |-> <<EchoTestCommand>>]>>

-----------------------------------------------------------------------------
(* Properties of the startup (SpecStartup) *)

SourceNames == <<"--config", "--config-file", "MCP_CLI_CONFIG_JSON", "MCP_CLI_CONFIG_PATH", "stdin">>

\* what each source holds in an environment
SourceHeld(e, k) ==
    CASE k = 1 -> e.config [] k = 2 -> e.configFile [] k = 3 -> e.envJson
      [] k = 4 -> e.envPath [] k = 5 -> e.stdin

\* the source resolveConfiguration is to use: the first provided one, else stdin
ChosenSource(e) ==
    IF \E k \in 1 .. 4 : SourceHeld(e, k) \notin {"absent", "empty"}
    THEN CHOOSE k \in 1 .. 4 :
            /\ SourceHeld(e, k) \notin {"absent", "empty"}
            /\ \A l \in 1 .. k - 1 : SourceHeld(e, l) \in {"absent", "empty"}
    ELSE 5

\* C15: when configuration resolution fails (malformed JSON, schema mismatch,
\* missing file, empty stdin) the process exits with code 1, no tool has been
\* registered and the transport is never connected; the transport is connected
\* only after a tool has been registered for every command of the configuration.
C15_FailFastStartup ==
    /\ [](phase \notin {"start", "parsed"} /\
          SourceHeld(env[1], ChosenSource(env[1])) \notin ValidDocuments =>
             /\ phase = "exited"
             /\ exitCode = <<1>>
             /\ tools = <<>>
             /\ connected = FALSE)
    /\ [](connected =>
             /\ config # <<>>
             /\ exitCode = <<>>
             /\ Len(tools) = Len(config[1].commands)
             /\ \A i \in DOMAIN tools : tools[i].name = config[1].commands[i].name)
    /\ [](exitCode # <<>> => exitCode = <<1>> /\ connected = FALSE)
    /\ [][connected # connected' =>
             /\ connected'
             /\ phase = "registered"
             /\ Len(tools) = Len(config[1].commands)]_vars

C15_Witness ==
    /\ phase = "exited"
    /\ exitCode = <<1>>
    /\ env[1].config = "malformed"
    /\ env[1].envJson = "two"
    /\ tools = <<>>
    /\ connected = FALSE

\* C16: resolveConfiguration uses exactly one source, the first that is provided
\* (given and not empty) in the order --config, --config-file,
\* MCP_CLI_CONFIG_JSON, MCP_CLI_CONFIG_PATH, stdin; when that source does not parse
\* or validate it fails and does not fall back to a later source; stdin is read
\* only when none of the other four is provided.
C16_FirstProvidedSourceOnly ==
    phase \notin {"start", "parsed"} =>
        LET e == env[1]
            k == ChosenSource(e)
            doc == SourceHeld(e, k)
        IN  /\ consulted = <<SourceNames[k]>>
            /\ doc \in ValidDocuments => config = <<JsonValue(doc)>>
            /\ doc \notin ValidDocuments => config = <<>> /\ phase = "exited"
            /\ consulted = <<"stdin">> =>
                  \A l \in 1 .. 4 : SourceHeld(e, l) \in {"absent", "empty"}

C16_Witness ==
    /\ phase = "exited"
    /\ env[1].config = "empty"
    /\ env[1].configFile = "missing"
    /\ env[1].envJson = "one"
    /\ env[1].envPath = "two"
    /\ env[1].stdin = "two"
    /\ consulted = <<"--config-file">>
    /\ config = <<>>

-----------------------------------------------------------------------------
(* Properties of the tool calls of one server process (SpecServer) *)

\* the calls whose child process is alive
ChildAlive == {i \in DOMAIN calls : calls[i].pc = "spawned"}

\* C19: tool calls are serialized around the spawn: at most one child process of
\* the server is alive at any time; from a call's validation to the return of its
\* Execution Result the thread stays with that call and no other call's handler
\* takes a step; and while a child that never terminates is alive no call, queued
\* before or arriving later, ever takes a step.
C19_CallsSerializedAroundSpawn ==
    /\ [](Cardinality(ChildAlive) <= 1)
    /\ [](\A i \in DOMAIN calls : calls[i].pc \in {"validated", "spawned"} => turn = i)
    /\ [][\A i \in DOMAIN calls : calls[i].pc \in {"validated", "spawned"} =>
             \A j \in DOMAIN calls \ {i} : calls'[j] = calls[j]]_vars
    /\ [][(\E i \in ChildAlive : calls[i].hangs) =>
             \A j \in DOMAIN calls : calls'[j] = calls[j]]_vars

C19_Witness ==
    /\ Len(calls) >= 3
    /\ calls[1].pc = "replied"
    /\ calls[2].pc = "spawned" /\ calls[2].hangs
    /\ calls[3].pc = "queued" /\ calls[3].valid
    /\ turn = 2

-----------------------------------------------------------------------------
(* Validation against defaults (SpecPure) *)

\* the required arguments of cmd that the vector built for p has a value for
ResolvedRequired(cmd, p) ==
    {i \in DOMAIN cmd.arguments :
        /\ cmd.arguments[i].required
        /\ FlagIndex(BuildCommandArguments(cmd.arguments, p), cmd.arguments[i].name) # 0}

\* C20: validateParameters does not consult defaults: a required argument absent
\* from the parameter map is reported missing even when its declaration has a
\* defaultValue, while the vector executeCommand builds for the same command and
\* parameters holds that default; and every parameter map validation accepts is
\* one for which the executor resolves every required argument.
C20_ValidationIgnoresDefaults ==
    pc = "validated" =>
        LET vector == BuildCommandArguments(command.arguments, params)
        IN  /\ \A i \in DOMAIN command.arguments :
                 LET a == command.arguments[i]
                 IN  (a.required /\ a.defaultValue # Undefined
                        /\ a.name \notin OwnKeys(params)) =>
                        /\ Contains(errors, MissingMessage(a.name))
                        /\ FlagIndex(vector, a.name) # 0
                        /\ vector[FlagIndex(vector, a.name) + 1] = String(a.defaultValue)
            /\ errors = <<>> =>
                 \A i \in DOMAIN command.arguments :
                     command.arguments[i].required => i \in ResolvedRequired(command, params)

\* C20 restricted to argument names that Object.prototype does not define
C20_HoldsForOrdinaryNames ==
    pc = "validated" =>
        LET vector == BuildCommandArguments(command.arguments, params)
        IN  /\ \A i \in DOMAIN command.arguments :
                 LET a == command.arguments[i]
                 IN  (a.required /\ a.defaultValue # Undefined
                        /\ a.name \notin OwnKeys(params)
                        /\ a.name \notin DOMAIN ObjectPrototype) =>
                        /\ Contains(errors, MissingMessage(a.name))
                        /\ FlagIndex(vector, a.name) # 0
                        /\ vector[FlagIndex(vector, a.name) + 1] = String(a.defaultValue)
            /\ errors = <<>> =>
                 \A i \in DOMAIN command.arguments :
                     command.arguments[i].required => i \in ResolvedRequired(command, params)

====
